---------------------------- MODULE Spec2Model ----------------------------
(***************************************************************************)
(* Meeting cost calculator: the cost policy (src/src/cost_calculator.py),  *)
(* the change tracking, the rendering and the annotation write             *)
(* (src/src/calendar_service.py) and the cron driver (src/src/main.py).    *)
(*                                                                         *)
(* Arithmetic.  Python computes hours = seconds / 3600.0 and the cost as   *)
(* int(round(hours * n * rate, 0)) in double precision.  The model keeps   *)
(* the duration in seconds and computes the quotient (seconds * n * rate)  *)
(* / 3600 exactly, rounding ties to even as round() does on a double.      *)
(* The endpoints below give durations of 1 s, for which no product of the  *)
(* model is a tie, and multiples of 225 s, for which hours and the product *)
(* are exact doubles; on these the exact quotient is the double product.   *)
(***************************************************************************)
EXTENDS Integers, Sequences, FiniteSets, TLC

VARIABLES
    config,       \* the Config object read by the cost policy
    event,        \* the event handed to compute_meeting_cost
    kwargs,       \* keyword arguments of that call: hourly_rate, or none
    cost_info,    \* what compute_meeting_cost returned (NotCalled before the call)
    store,        \* Firestore: the syncToken of each user's document, or None
    pc,           \* where cron() is
    idx,          \* cron: number of users the loop has taken
    email,        \* cron: the user being processed
    sync_token,   \* cron: what get_sync_token returned
    items,        \* cron: events returned by list_changed_events (NoItems: None)
    next_token,   \* cron: cursor returned by list_changed_events
    done,         \* cron: how many events of items the loop has taken
    processed,    \* cron: counter of annotated events
    skipped,      \* cron: counter of skipped events
    outcome,      \* what cron() returned, or the exception that left it
    req,          \* list_changed_events: the request being paged
    events,       \* list_changed_events: events gathered so far
    served,       \* list_changed_events: the pages req.execute() has returned to it
    calls,        \* history: the list_changed_events calls made for this user
    saves,        \* history: save_sync_token calls made for this user
    annotate_failed, \* history: idx of the first user an annotation write raised for, or 0
    desc,         \* annotate_event: the description it read
    cost_line,    \* annotate_event: the rendered block
    patch_body,   \* annotate_event: the body it sent to events().patch (NoPatch: none yet)
    calendar      \* upstream: the calendar the requests go to (NoCalendar: not modelled)

costVars == <<config, event, kwargs, cost_info>>

noteVars == <<desc, cost_line, patch_body>>

cronVars ==
    <<store, pc, idx, email, sync_token, items, next_token, done, processed,
      skipped, outcome, req, events, served, calls, saves, annotate_failed>>

vars == <<costVars, cronVars, noteVars, calendar>>

\* Python's None in a slot that otherwise holds a string; a missing dict key
\* is a missing record field.
None == "None"

\* cost_info before compute_meeting_cost has returned
NotCalled == << >>

-----------------------------------------------------------------------------
(* Bounds of the model *)

MaxAttendees == 3

\* users returned by list_active_users
NUsers == 2

\* pages the upstream listing returns for one request, at most
MaxPages == 2

-----------------------------------------------------------------------------
(* Program constants *)

SecondsPerHour == 3600
DefaultRate == 125
DefaultDomain == "hginsights.com"
DefaultCostTag == "[[MEETING_COST]]"

-----------------------------------------------------------------------------
(* Inputs *)

\* "" is an attendee whose email is empty; an attendee may also lack the key.
EmailSeq ==
    << "", "alice@hginsights.com", "Bob@HGInsights.COM", "eve@example.org" >>

ResponseSeq == << "accepted", "tentative", "declined", "needsAction" >>

\* Attendee kinds: every email with every responseStatus, and every email
\* without the responseStatus key.
NKinds == Len(EmailSeq) * (Len(ResponseSeq) + 1)

AttendeeKind(k) ==
    LET e == EmailSeq[((k - 1) \div (Len(ResponseSeq) + 1)) + 1]
        r == (k - 1) % (Len(ResponseSeq) + 1)
    IN  IF r = 0 THEN [email |-> e]
        ELSE [email |-> e, responseStatus |-> ResponseSeq[r]]

\* compute_meeting_cost filters and counts the attendees and never looks at
\* their order, so the attendee lists are enumerated up to permutation.
KindLists ==
    UNION { { s \in [1..n -> 1..NKinds] :
                \A i \in 1..n : \A j \in 1..n : i <= j => s[i] <= s[j] } :
            n \in 0..MaxAttendees }

AttendeeLists == { [i \in DOMAIN s |-> AttendeeKind(s[i])] : s \in KindLists }

\* start / end: a dateTime in seconds since an epoch, or a date-only
\* (all-day) endpoint, which carries no dateTime.
Starts == { [date |-> "2025-01-01"], [dateTime |-> 900] }
Ends ==
    { [date |-> "2025-01-02"] } \cup
    { [dateTime |-> t] : t \in { 0, 901, 1800, 4500, 8100, 9900 } }

Events ==
    { [start |-> s, end |-> e, attendees |-> a] :
        s \in Starts, e \in Ends, a \in AttendeeLists }

Rates == { 0, 1, 125 }

Kwargs == { << >> } \cup { [hourly_rate |-> r] : r \in Rates }

\* the configuration of an empty environment
DefaultConfig ==
    [ domain |-> DefaultDomain, default_rate |-> DefaultRate,
      cost_tag |-> DefaultCostTag, internal_only |-> TRUE ]

\* INTERNAL_ONLY set either way
Configs == { [DefaultConfig EXCEPT !.internal_only = io] : io \in BOOLEAN }

-----------------------------------------------------------------------------
(* cost_calculator.py *)

Max(a, b) == IF a >= b THEN a ELSE b

\* a.get("email") is truthy: the key is there and the string is not empty
HasEmail(a) == "email" \in DOMAIN a /\ a.email # ""

\* start.get("dateTime") is truthy (a dateTime that is present is a timestamp)
HasDateTime(d) == "dateTime" \in DOMAIN d

\* str.lower(), character by character
LowerChar(c) ==
    CASE c = "A" -> "a" [] c = "B" -> "b" [] c = "C" -> "c" [] c = "D" -> "d"
      [] c = "E" -> "e" [] c = "F" -> "f" [] c = "G" -> "g" [] c = "H" -> "h"
      [] c = "I" -> "i" [] c = "J" -> "j" [] c = "K" -> "k" [] c = "L" -> "l"
      [] c = "M" -> "m" [] c = "N" -> "n" [] c = "O" -> "o" [] c = "P" -> "p"
      [] c = "Q" -> "q" [] c = "R" -> "r" [] c = "S" -> "s" [] c = "T" -> "t"
      [] c = "U" -> "u" [] c = "V" -> "v" [] c = "W" -> "w" [] c = "X" -> "x"
      [] c = "Y" -> "y" [] c = "Z" -> "z" [] OTHER -> c

RECURSIVE LowerRange(_, _, _)
LowerRange(s, i, j) ==
    IF i > j THEN ""
    ELSE IF i = j THEN LowerChar(SubSeq(s, i, i))
    ELSE LET m == (i + j) \div 2
         IN  LowerRange(s, i, m) \o LowerRange(s, m + 1, j)

\* str.lower() of the attendee strings of the model, each computed once
LowerOf ==
    [ s \in { EmailSeq[i] : i \in DOMAIN EmailSeq }
              \cup { ResponseSeq[i] : i \in DOMAIN ResponseSeq }
              \cup { "carol@hginsights.com", "external@otherdomain.com" } |->
        LowerRange(s, 1, Len(s)) ]

Lower(s) == IF s \in DOMAIN LowerOf THEN LowerOf[s] ELSE LowerRange(s, 1, Len(s))

\* sub in s
Contains(s, sub) ==
    \E i \in 1..(Len(s) - Len(sub) + 1) : SubSeq(s, i, i + Len(sub) - 1) = sub

\* s.endswith(suffix)
EndsWith(s, suffix) ==
    /\ Len(s) >= Len(suffix)
    /\ SubSeq(s, Len(s) - Len(suffix) + 1, Len(s)) = suffix

internal_email(addr) == EndsWith(Lower(addr), "@" \o config.domain)

\* Duration in seconds (the code divides by 3600.0 to get hours; the model
\* keeps the exact numerator).
event_duration_hours(ev) ==
    IF ~HasDateTime(ev.start) \/ ~HasDateTime(ev.end)
    THEN 0
    ELSE Max(0, ev.end.dateTime - ev.start.dateTime)

\* Mutant: nearest integer with every tie rounded away from zero.
RoundHalfAway(num, den) ==
    IF 2 * (num % den) >= den THEN (num \div den) + 1 ELSE num \div den

\* round(num / den, 0) for num >= 0, den > 0: nearest integer, ties to even
Round(num, den) ==
    LET q == num \div den
        r == num % den
    IN  IF 2 * r > den THEN q + 1
        ELSE IF 2 * r < den THEN q
        ELSE IF q % 2 = 0 THEN q ELSE q + 1

\* int(round(hours * count * rate, 0))
Cost(secs, count, rate) == Round(secs * count * rate, SecondsPerHour)

Skip(reason) == [invited_cost |-> -1, effective_cost |-> -1, skip_reason |-> reason]

\* [a for a in event.get("attendees", []) if a.get("email")]
WithEmail(attendees) == SelectSeq(attendees, HasEmail)

\* [a for a in attendees if internal_email(a["email"])]
InternalAttendees(attendees) ==
    SelectSeq(attendees, LAMBDA a : internal_email(a.email))

\* Mutant: an attendee counts only once it has answered yes or maybe.
IsEffectiveAnswered(a) ==
    /\ "responseStatus" \in DOMAIN a
    /\ Lower(a.responseStatus) \in {"accepted", "tentative"}

\* attendee.get("responseStatus", "needsAction").lower() in [...]
IsEffective(a) ==
    LET response == IF "responseStatus" \in DOMAIN a
                    THEN a.responseStatus ELSE "needsAction"
    IN  Lower(response) \in {"accepted", "tentative", "needsaction"}

\* the loop over internal_attendees that collects effective_attendees
EffectiveAttendees(internal_attendees) ==
    SelectSeq(internal_attendees, IsEffective)

\* Mutant: the effective cost is charged over the invited attendees.
QualifyingResultInvitedTwice(hours, internal, effective, rate) ==
    [ invited_cost    |-> Cost(hours, Len(internal), rate),
      effective_cost  |-> Cost(hours, Len(internal), rate),
      invited_count   |-> Len(internal),
      effective_count |-> Len(effective),
      hours           |-> hours,
      skip_reason     |-> None ]

\* Mutant: the two attendee lists are taken the wrong way round.
QualifyingResultSwapped(hours, internal, effective, rate) ==
    [ invited_cost    |-> Cost(hours, Len(effective), rate),
      effective_cost  |-> Cost(hours, Len(internal), rate),
      invited_count   |-> Len(effective),
      effective_count |-> Len(internal),
      hours           |-> hours,
      skip_reason     |-> None ]

\* the two costs and the returned dict of a qualifying event
QualifyingResult(hours, internal, effective, rate) ==
    [ invited_cost    |-> Cost(hours, Len(internal), rate),
      effective_cost  |-> Cost(hours, Len(effective), rate),
      invited_count   |-> Len(internal),
      effective_count |-> Len(effective),
      hours           |-> hours,
      skip_reason     |-> None ]

\* Mutant: the test for no internal attendee comes before the mixed test.
compute_meeting_cost_reordered(ev, kw) ==
    LET rate      == IF "hourly_rate" \in DOMAIN kw
                     THEN kw.hourly_rate ELSE config.default_rate
        attendees == WithEmail(ev.attendees)
        hours     == event_duration_hours(ev)
        internal  == InternalAttendees(attendees)
        effective == EffectiveAttendees(internal)
    IN  IF hours <= 0 THEN Skip("no_duration")
        ELSE IF Len(internal) = 0 THEN Skip("no_internal_attendees")
        ELSE IF config.internal_only /\ Len(internal) # Len(attendees)
             THEN Skip("mixed_meeting")
        ELSE IF Len(internal) = 1 THEN Skip("solo_meeting")
        ELSE IF Len(effective) = 0 THEN Skip("all_declined")
        ELSE IF Len(effective) = 1 THEN Skip("effective_solo_meeting")
        ELSE QualifyingResult(hours, internal, effective, rate)

compute_meeting_cost(ev, kw) ==
    LET rate      == IF "hourly_rate" \in DOMAIN kw
                     THEN kw.hourly_rate ELSE config.default_rate
        attendees == WithEmail(ev.attendees)
        hours     == event_duration_hours(ev)
        internal  == InternalAttendees(attendees)
        effective == EffectiveAttendees(internal)
    IN  IF hours <= 0 THEN Skip("no_duration")
        ELSE IF config.internal_only /\ Len(internal) # Len(attendees)
             THEN Skip("mixed_meeting")
        ELSE IF Len(internal) = 0 THEN Skip("no_internal_attendees")
        ELSE IF Len(internal) = 1 THEN Skip("solo_meeting")
        ELSE IF Len(effective) = 0 THEN Skip("all_declined")
        ELSE IF Len(effective) = 1 THEN Skip("effective_solo_meeting")
        ELSE QualifyingResult(hours, internal, effective, rate)

-----------------------------------------------------------------------------
(* Inputs of the driver: users, cursors, upstream pages and errors *)

UserNames ==
    << "ann@hginsights.com", "ben@hginsights.com", "cat@hginsights.com",
       "dan@hginsights.com" >>

\* list_active_users(): distinct primary emails, in order
users == SubSeq(UserNames, 1, NUsers)

UserSet == { users[i] : i \in 1..NUsers }

Tokens == { "tokA", "tokB" }

\* Events the upstream listing can return: a two-person internal meeting and
\* a solo meeting.
Meeting ==
    [ id |-> "meeting",
      start |-> [dateTime |-> 900], end |-> [dateTime |-> 4500],
      attendees |-> << [email |-> "alice@hginsights.com", responseStatus |-> "accepted"],
                       [email |-> "Bob@HGInsights.COM", responseStatus |-> "accepted"] >> ]

Solo ==
    [ id |-> "solo",
      start |-> [dateTime |-> 900], end |-> [dateTime |-> 4500],
      attendees |-> << [email |-> "alice@hginsights.com", responseStatus |-> "accepted"] >> ]

\* resp.get("items", []) of one page
PageItems == { << >>, << Meeting >>, << Solo >> }

\* a cursor on a page that is not the last one (cursors are opaque and no
\* two pages carry the same one)
EarlyToken == "tokEarly"

\* One page of the upstream listing.  A full listing that follows a rejected
\* cursor never hands the rejected cursor out again as the fresh one.
Responses(rq, stale) ==
    { [items |-> it, nextPageToken |-> None, nextSyncToken |-> tk] :
        it \in PageItems, tk \in (Tokens \cup { None }) \ { stale } }
    \cup
    { [items |-> it, nextPageToken |-> "page", nextSyncToken |-> tk] :
        it \in IF rq.page < MaxPages THEN PageItems ELSE { },
        tk \in { None, EarlyToken } }

ListUri(rq) ==
    "https://www.googleapis.com/calendar/v3/calendars/primary/events?"
        \o (IF rq.syncToken # None THEN "syncToken=" \o rq.syncToken
            ELSE "singleEvents=true&showDeleted=false")
        \o "&maxResults=2500"

\* What req.execute() can raise.  Upstream answers 410 "full sync required"
\* only to a request that carries a sync token.
StaleTokenError(rq) ==
    [ status |-> "410", uri |-> ListUri(rq),
      reason |-> "Sync token is no longer valid, a full sync is required." ]

BackendError(rq) ==
    [ status |-> "500", uri |-> ListUri(rq), reason |-> "Backend Error" ]

RateLimitError(rq) ==
    [ status |-> "403", uri |-> ListUri(rq), reason |-> "Rate Limit Exceeded" ]

ExecuteErrors(rq) ==
    { BackendError(rq), RateLimitError(rq) }
        \cup (IF rq.syncToken # None THEN { StaleTokenError(rq) } ELSE { })

\* str(e) of a googleapiclient HttpError
Str(e) ==
    "<HttpError " \o e.status \o " when requesting " \o e.uri
        \o " returned \"" \o e.reason \o "\">"

\* The first component of what list_changed_events returns: None, or a list
\* of events.
NoItems == [none |-> TRUE]

List(evs) == [list |-> evs]

\* the exception that left cron()
Raised(where) == [raised |-> where]

\* outcome while cron() has not returned
NotStarted == [started |-> FALSE]

\* req outside list_changed_events
NoRequest == [syncToken |-> None, page |-> 0]

\* cursors an earlier run can have left in the store
StoredTokens == { "tokA" }

-----------------------------------------------------------------------------
(* calendar_service.py: list_changed_events, get_sync_token, save_sync_token *)

\* Mutant: the two substring tests joined by "or".
IsStaleSyncTokenOr(e) ==
    Contains(Str(e), "syncToken") \/ Contains(Lower(Str(e)), "full sync")

\* "syncToken" in str(e) and "full sync" in str(e).lower()
IsStaleSyncToken(e) ==
    Contains(Str(e), "syncToken") /\ Contains(Lower(Str(e)), "full sync")

\* every error the model's requests can meet, and the except clause's test
\* on each, computed once
AllErrors ==
    UNION { ExecuteErrors([syncToken |-> t, page |-> 1]) : t \in Tokens \cup { None } }

ReturnsInvalid == { e \in AllErrors : IsStaleSyncToken(e) }

\* the request list_changed_events builds: incremental when sync_token is
\* truthy, else the windowed full listing
NewRequest(token) == [syncToken |-> token, page |-> 1]

\* cron() goes on after list_changed_events returned (its, tok): the first
\* call's (None, None) leads to the second call; else the event loop starts,
\* and iterating None raises.
Returned(its, tok, err) ==
    /\ items' = its
    /\ next_token' = tok
    /\ done' = 0
    /\ req' = NoRequest
    /\ events' = << >>
    /\ served' = << >>
    /\ calls' = [calls EXCEPT ![Len(calls)] =
                    [@ EXCEPT !.result = IF its = NoItems THEN "invalid" ELSE "events",
                              !.error = err,
                              !.pages = req.page,
                              !.items = its]]
    /\ IF its = NoItems /\ tok = None /\ Len(calls) = 1
       THEN pc' = "resync" /\ UNCHANGED outcome
       ELSE IF its = NoItems
            THEN pc' = "raised" /\ outcome' = Raised("for event in items")
            ELSE pc' = "events" /\ UNCHANGED outcome

\* the cursor the upstream has rejected for this user in this run, or ""
Rejected == IF Len(calls) = 2 THEN calls[1].cursor ELSE ""

\* resp = req.execute() gives a page that names a next page
ExecutePage ==
    /\ pc = "paging"
    /\ \E resp \in Responses(req, Rejected) :
          /\ resp.nextPageToken # None
          /\ events' = events \o resp.items
          /\ req' = [req EXCEPT !.page = @ + 1]
          /\ served' = Append(served, resp)
    /\ UNCHANGED <<calendar, costVars, noteVars, store, pc, idx, email, sync_token, items, next_token,
                   done, processed, skipped, outcome, calls, saves, annotate_failed>>

\* Mutant: only the events of the last page are returned.
ExecuteLastPageOnly ==
    /\ pc = "paging"
    /\ \E resp \in Responses(req, Rejected) :
          /\ resp.nextPageToken = None
          /\ Returned(List(resp.items), resp.nextSyncToken, "none")
    /\ UNCHANGED <<calendar, costVars, noteVars, store, idx, email, sync_token, processed, skipped,
                   saves, annotate_failed>>

\* resp = req.execute() gives the last page
ExecuteLastPage ==
    /\ pc = "paging"
    /\ \E resp \in Responses(req, Rejected) :
          /\ resp.nextPageToken = None
          /\ Returned(List(events \o resp.items), resp.nextSyncToken, "none")
    /\ UNCHANGED <<calendar, costVars, noteVars, store, idx, email, sync_token, processed, skipped,
                   saves, annotate_failed>>

\* req.execute() raises and the except clause returns (None, None)
ExecuteRaisesStale ==
    /\ pc = "paging"
    /\ \E e \in ExecuteErrors(req) :
          /\ e \in ReturnsInvalid
          /\ Returned(NoItems, None, e.status)
    /\ UNCHANGED <<calendar, costVars, noteVars, store, idx, email, sync_token, processed, skipped,
                   saves, annotate_failed>>

\* Mutant: on an error that is not the stale-cursor one the call gives back
\* the events of the pages served so far.
ExecuteRaisesPartial ==
    /\ pc = "paging"
    /\ \E e \in ExecuteErrors(req) :
          /\ e \notin ReturnsInvalid
          /\ calls' = [calls EXCEPT ![Len(calls)] =
                          [@ EXCEPT !.result = "raised", !.error = e.status,
                                    !.pages = req.page]]
    /\ pc' = "events"
    /\ items' = List(events)
    /\ next_token' = None
    /\ done' = 0
    /\ req' = NoRequest
    /\ events' = << >>
    /\ served' = << >>
    /\ UNCHANGED <<calendar, costVars, noteVars, store, idx, email, sync_token, processed, skipped,
                   outcome, saves, annotate_failed>>

\* req.execute() raises and the except clause raises again: the exception
\* leaves list_changed_events and cron()
ExecuteRaises ==
    /\ pc = "paging"
    /\ \E e \in ExecuteErrors(req) :
          /\ e \notin ReturnsInvalid
          /\ calls' = [calls EXCEPT ![Len(calls)] =
                          [@ EXCEPT !.result = "raised", !.error = e.status,
                                    !.pages = req.page]]
    /\ pc' = "raised"
    /\ outcome' = Raised("list_changed_events")
    /\ req' = NoRequest
    /\ events' = << >>
    /\ served' = << >>
    /\ UNCHANGED <<calendar, costVars, noteVars, store, idx, email, sync_token, items, next_token, done,
                   processed, skipped, saves, annotate_failed>>

-----------------------------------------------------------------------------
(* calendar_service.py: rendering and annotate_event *)

\* The strings of the model are ASCII.  Each non-ASCII code point of the
\* source is written as one ASCII character that no other text of the model
\* contains, so the encoding is one to one and keeps every length.
RedCircle == "!"        \* U+1F534, the marker of a cost above 1000
OrangeCircle == "*"     \* U+1F7E0, the marker of a cost above 500
GreenCircle == "^"      \* U+1F7E2, the marker of any other cost
BoxUpRight == "|"       \* U+2514, first character of the subordinate line
BoxHorizontal == "~"    \* U+2500, second character of the subordinate line
RightArrow == ">"       \* U+2192, between the two counts

DigitSeq == << "0", "1", "2", "3", "4", "5", "6", "7", "8", "9" >>

\* str(n) for n >= 0
RECURSIVE IntStr(_)
IntStr(n) ==
    IF n < 10 THEN DigitSeq[n + 1] ELSE IntStr(n \div 10) \o DigitSeq[(n % 10) + 1]

\* the three digits of a group after a thousands separator
Group(n) ==
    DigitSeq[(n \div 100) + 1] \o DigitSeq[((n \div 10) % 10) + 1] \o DigitSeq[(n % 10) + 1]

\* f"{n:,}" for n >= 0
RECURSIVE Commas(_)
Commas(n) ==
    IF n < 1000 THEN IntStr(n) ELSE Commas(n \div 1000) \o "," \o Group(n % 1000)

\* Mutant: the high tier starts at 1000 and the medium tier at 500.
get_cost_display_format_inclusive(cost) ==
    IF cost >= 1000 THEN RedCircle \o " $" \o Commas(cost)
    ELSE IF cost >= 500 THEN OrangeCircle \o " $" \o Commas(cost)
    ELSE GreenCircle \o " $" \o Commas(cost)

get_cost_display_format(cost) ==
    IF cost > 1000 THEN RedCircle \o " $" \o Commas(cost)
    ELSE IF cost > 500 THEN OrangeCircle \o " $" \o Commas(cost)
    ELSE GreenCircle \o " $" \o Commas(cost)

\* Mutant: one line when the two counts are equal.
create_dual_cost_display_by_count(ci) ==
    IF ci.invited_count = ci.effective_count
    THEN config.cost_tag \o ": " \o get_cost_display_format(ci.effective_cost)
    ELSE config.cost_tag \o ": " \o get_cost_display_format(ci.effective_cost) \o "\n"
           \o BoxUpRight \o BoxHorizontal \o " Invited cost: "
           \o get_cost_display_format(ci.invited_cost) \o " "
           \o "(" \o IntStr(ci.invited_count) \o " invited " \o RightArrow \o " "
           \o IntStr(ci.effective_count) \o " attending)"

create_dual_cost_display(ci) ==
    IF ci.invited_cost = ci.effective_cost
    THEN config.cost_tag \o ": " \o get_cost_display_format(ci.effective_cost)
    ELSE config.cost_tag \o ": " \o get_cost_display_format(ci.effective_cost) \o "\n"
           \o BoxUpRight \o BoxHorizontal \o " Invited cost: "
           \o get_cost_display_format(ci.invited_cost) \o " "
           \o "(" \o IntStr(ci.invited_count) \o " invited " \o RightArrow \o " "
           \o IntStr(ci.effective_count) \o " attending)"

CharAt(s, i) == SubSeq(s, i, i)

\* s[i:].startswith(sub)
StartsAt(s, i, sub) ==
    /\ i + Len(sub) - 1 <= Len(s)
    /\ SubSeq(s, i, i + Len(sub) - 1) = sub

\* re.escape(config.cost_tag) + ":" matches the tag and the colon literally
TagColon == config.cost_tag \o ":"

\* where the first match of the tag at or after position from starts, or 0
FindTag(s, from) ==
    LET starts == { i \in from..Len(s) : StartsAt(s, i, TagColon) }
    IN  IF starts = { } THEN 0
        ELSE CHOOSE i \in starts : \A j \in starts : i <= j

\* Mutant: the match ends at the end of the tag line.
AtLineEnd(s, e) ==
    \/ e = Len(s)
    \/ e < Len(s) /\ CharAt(s, e + 1) = "\n"

\* The lookahead (?=\n(?![corner, horizontal])|$) after the e-th character:
\* a newline follows that is not followed by one of the two box characters,
\* or the string ends (or ends with one more newline).
AtBlockEnd(s, e) ==
    \/ e = Len(s)
    \/ /\ e < Len(s)
       /\ CharAt(s, e + 1) = "\n"
       /\ \/ e + 2 > Len(s)
          \/ CharAt(s, e + 2) \notin { BoxUpRight, BoxHorizontal }

\* .*? with DOTALL is lazy: the match that has taken the characters up to
\* position e ends at the first position where the lookahead holds
MatchEnd(s, e) ==
    CHOOSE k \in e..Len(s) :
        /\ AtBlockEnd(s, k)
        /\ \A j \in e..(k - 1) : ~AtBlockEnd(s, j)

\* re.search(tag_pattern, desc, re.DOTALL)
Search(s) == FindTag(s, 1) # 0

\* re.sub(tag_pattern, cost_line, desc, flags=re.DOTALL) from position from
\* on: every match, left to right, is replaced (the rendered line holds no
\* backslash, so the replacement is taken literally)
RECURSIVE Sub(_, _, _)
Sub(s, from, repl) ==
    LET i == FindTag(s, from)
    IN  IF i = 0 THEN SubSeq(s, from, Len(s))
        ELSE LET e == MatchEnd(s, i + Len(TagColon) - 1)
             IN  SubSeq(s, from, i - 1) \o repl \o Sub(s, e + 1, repl)

\* desc.strip() is not empty
HasText(s) == \E i \in 1..Len(s) : CharAt(s, i) \notin { " ", "\n", "\t", "\r" }

\* Mutant: the block is always put in front, whether or not one is there.
new_desc_prepend(d, line) ==
    IF HasText(d) THEN line \o "\n\n" \o d ELSE line

\* Mutant: the block and the existing text are separated by one newline.
new_desc_no_blank_line(d, line) ==
    IF Search(d) THEN Sub(d, 1, line)
    ELSE IF HasText(d) THEN line \o "\n" \o d
    ELSE line

\* new_desc of annotate_event
new_desc(d, line) ==
    IF Search(d) THEN Sub(d, 1, line)
    ELSE IF HasText(d) THEN line \o "\n\n" \o d
    ELSE line

\* event.get("description", "") or ""
Description(ev) == IF "description" \in DOMAIN ev THEN ev.description ELSE ""

NoPatch == [sent |-> FALSE]

\* calendar in the runs that do not follow what upstream holds
NoCalendar == [modelled |-> FALSE]

\* Mutant: the legacy field carries the invited cost.
PatchBodyLegacyInvited(ev, ci) ==
    [ description |-> new_desc(Description(ev), create_dual_cost_display(ci)),
      extendedProperties |->
          [ private |-> [ meetingCost   |-> IntStr(ci.invited_cost),
                          invitedCost   |-> IntStr(ci.invited_cost),
                          effectiveCost |-> IntStr(ci.effective_cost) ] ] ]

\* patch_body of annotate_event for a cost_info dict (the driver never passes
\* the legacy bare integer)
PatchBody(ev, ci) ==
    [ description |-> new_desc(Description(ev), create_dual_cost_display(ci)),
      extendedProperties |->
          [ private |-> [ meetingCost   |-> IntStr(ci.effective_cost),
                          invitedCost   |-> IntStr(ci.invited_cost),
                          effectiveCost |-> IntStr(ci.effective_cost) ] ] ]

\* the event upstream once events().patch(body) has been executed: the
\* description is replaced and the three private properties are set
Patched(ev, body) ==
    [ k \in DOMAIN ev \cup { "description", "extendedProperties" } |->
        IF k = "description" THEN body.description
        ELSE IF k = "extendedProperties" THEN body.extendedProperties
        ELSE ev[k] ]

\* What cal.events().patch(calendarId, eventId, body).execute() leaves
\* upstream when it returns.  The calendar holds one event, the cursors it
\* has issued and, for each, whether the event has changed since.  A patch
\* that changes the event makes it a change for every cursor issued before;
\* a patch that writes what the event already holds may or may not (upstream
\* decides whether it stamps the event as updated).
PatchOutcomes(c, calendar_id, body) ==
    IF c = NoCalendar \/ c.owner # calendar_id THEN { c }
    ELSE LET ev == Patched(c.event, body)
         IN  { [c EXCEPT !.event = ev, !.since = [t \in Tokens |-> TRUE]] }
                 \cup (IF ev = c.event THEN { c } ELSE { })

\* annotate_event(cal, email, event, cost_info) returns: its locals and the
\* body it has sent
Annotated(ev, ci) ==
    /\ desc' = Description(ev)
    /\ cost_line' = create_dual_cost_display(ci)
    /\ patch_body' = PatchBody(ev, ci)

\* Mutant: a zero cost is taken for a skip.
IsSkippedOrFree(ci) == ci.effective_cost <= 0

\* if cost_info['effective_cost'] < 0
IsSkipped(ci) == ci.effective_cost < 0

-----------------------------------------------------------------------------
(* main.py: cron *)

NoCalls == << >>

\* History of one list_changed_events call: the cursor argument, how the call
\* ended ("events", "invalid" for (None, None), "raised"), the status of the
\* upstream error it met, the pages it had requested, and the items returned.
Call(token) ==
    [ cursor |-> token, result |-> "running", error |-> "none", pages |-> 0,
      items |-> NoItems ]

\* The locals of the loop body before the body assigns them: every one is
\* assigned before it is read, so the value left by the previous iteration
\* is dropped when the next one starts.
FreshLocals ==
    /\ sync_token' = None
    /\ items' = List(<< >>)
    /\ next_token' = None
    /\ done' = 0
    /\ event' = NotCalled
    /\ cost_info' = NotCalled
    /\ calls' = NoCalls
    /\ saves' = 0
    /\ desc' = ""
    /\ cost_line' = ""
    /\ patch_body' = NoPatch

\* for idx, email in enumerate(users): cal = calendar_service(email)
NextUser ==
    /\ pc = "loop"
    /\ idx < NUsers
    /\ idx' = idx + 1
    /\ email' = users[idx + 1]
    /\ FreshLocals
    /\ pc' = "get_sync_token"
    /\ UNCHANGED <<calendar, config, kwargs, store, processed, skipped, outcome, req, events, served,
                   annotate_failed>>

\* calendar_service(email) raises
CalendarServiceRaises ==
    /\ pc = "loop"
    /\ idx < NUsers
    /\ idx' = idx + 1
    /\ email' = users[idx + 1]
    /\ FreshLocals
    /\ pc' = "raised"
    /\ outcome' = Raised("calendar_service")
    /\ UNCHANGED <<calendar, config, kwargs, store, processed, skipped, req, events, served,
                   annotate_failed>>

\* sync_token = get_sync_token(email)
GetSyncToken ==
    /\ pc = "get_sync_token"
    /\ sync_token' = store[email]
    /\ pc' = "list"
    /\ UNCHANGED <<calendar, costVars, noteVars, store, idx, email, items, next_token, done, processed,
                   skipped, outcome, req, events, served, calls, saves, annotate_failed>>

\* get_sync_token(email) raises
GetSyncTokenRaises ==
    /\ pc = "get_sync_token"
    /\ pc' = "raised"
    /\ outcome' = Raised("get_sync_token")
    /\ UNCHANGED <<calendar, costVars, noteVars, store, idx, email, sync_token, items, next_token, done,
                   processed, skipped, req, events, served, calls, saves, annotate_failed>>

\* Mutant: the second call sends the cursor again.
ResyncCursorSame(token) == token

\* the cursor argument of the second call
ResyncCursor(token) == None

\* items, next_token = list_changed_events(cal, email, sync_token)
CallList ==
    /\ pc = "list"
    /\ req' = NewRequest(sync_token)
    /\ events' = << >>
    /\ served' = << >>
    /\ calls' = Append(calls, Call(sync_token))
    /\ pc' = "paging"
    /\ UNCHANGED <<calendar, costVars, noteVars, store, idx, email, sync_token, items, next_token, done,
                   processed, skipped, outcome, saves, annotate_failed>>

\* if items is None and next_token is None:
\*     items, next_token = list_changed_events(cal, email, None)
CallListAgain ==
    /\ pc = "resync"
    /\ req' = NewRequest(ResyncCursor(sync_token))
    /\ events' = << >>
    /\ served' = << >>
    /\ calls' = Append(calls, Call(ResyncCursor(sync_token)))
    /\ pc' = "paging"
    /\ UNCHANGED <<calendar, costVars, noteVars, store, idx, email, sync_token, items, next_token, done,
                   processed, skipped, outcome, saves, annotate_failed>>

\* the loop takes the next event and compute_meeting_cost skips it
SkipEvent ==
    /\ pc = "events"
    /\ done < Len(items.list)
    /\ event' = items.list[done + 1]
    /\ cost_info' = compute_meeting_cost(items.list[done + 1], << >>)
    /\ IsSkipped(cost_info')
    /\ skipped' = skipped + 1
    /\ done' = done + 1
    /\ UNCHANGED <<calendar, config, kwargs, noteVars, store, pc, idx, email, sync_token, items, next_token,
                   processed, outcome, req, events, served, calls, saves, annotate_failed>>

\* the loop takes the next event, which qualifies, and annotate_event returns
AnnotateEvent ==
    /\ pc = "events"
    /\ done < Len(items.list)
    /\ event' = items.list[done + 1]
    /\ cost_info' = compute_meeting_cost(items.list[done + 1], << >>)
    /\ ~IsSkipped(cost_info')
    /\ Annotated(items.list[done + 1], cost_info')
    /\ calendar' \in PatchOutcomes(calendar, email, patch_body')
    /\ processed' = processed + 1
    /\ done' = done + 1
    /\ UNCHANGED <<config, kwargs, store, pc, idx, email, sync_token, items, next_token,
                   skipped, outcome, req, events, served, calls, saves, annotate_failed>>

\* Mutant: the exception of annotate_event is not caught.
AnnotateRaisesUncaught ==
    /\ pc = "events"
    /\ done < Len(items.list)
    /\ event' = items.list[done + 1]
    /\ cost_info' = compute_meeting_cost(items.list[done + 1], << >>)
    /\ ~IsSkipped(cost_info')
    /\ annotate_failed' = IF annotate_failed = 0 THEN idx ELSE annotate_failed
    /\ pc' = "raised"
    /\ outcome' = Raised("annotate_event")
    /\ UNCHANGED <<calendar, config, kwargs, noteVars, store, idx, email, sync_token, items, next_token,
                   done, processed, skipped, req, events, served, calls, saves>>

\* the loop takes the next event, which qualifies, and annotate_event raises:
\* the except clause prints and the loop goes on
AnnotateRaises ==
    /\ pc = "events"
    /\ done < Len(items.list)
    /\ event' = items.list[done + 1]
    /\ cost_info' = compute_meeting_cost(items.list[done + 1], << >>)
    /\ ~IsSkipped(cost_info')
    /\ annotate_failed' = IF annotate_failed = 0 THEN idx ELSE annotate_failed
    /\ done' = done + 1
    /\ UNCHANGED <<calendar, config, kwargs, noteVars, store, pc, idx, email, sync_token, items, next_token,
                   processed, skipped, outcome, req, events, served, calls, saves>>

\* Mutant: the cursor is saved whether or not the listing returned one.
SaveSyncTokenAlways ==
    /\ pc = "events"
    /\ done = Len(items.list)
    /\ store' = [store EXCEPT ![email] = next_token]
    /\ saves' = saves + 1
    /\ pc' = "loop"
    /\ UNCHANGED <<calendar, costVars, noteVars, idx, email, sync_token, items, next_token, done, processed,
                   skipped, outcome, req, events, served, calls, annotate_failed>>

\* Mutant: the cursor is kept in one document that all users share.
SaveSyncTokenShared ==
    /\ pc = "events"
    /\ done = Len(items.list)
    /\ next_token # None
    /\ store' = [u \in UserSet |-> next_token]
    /\ saves' = saves + 1
    /\ pc' = "loop"
    /\ UNCHANGED <<calendar, costVars, noteVars, idx, email, sync_token, items, next_token, done, processed,
                   skipped, outcome, req, events, served, calls, annotate_failed>>

\* the event loop is over: if next_token: save_sync_token(email, next_token)
SaveSyncToken ==
    /\ pc = "events"
    /\ done = Len(items.list)
    /\ next_token # None
    /\ store' = [store EXCEPT ![email] = next_token]
    /\ saves' = saves + 1
    /\ pc' = "loop"
    /\ UNCHANGED <<calendar, costVars, noteVars, idx, email, sync_token, items, next_token, done, processed,
                   skipped, outcome, req, events, served, calls, annotate_failed>>

\* save_sync_token(email, next_token) raises
SaveSyncTokenRaises ==
    /\ pc = "events"
    /\ done = Len(items.list)
    /\ next_token # None
    /\ saves' = saves + 1
    /\ pc' = "raised"
    /\ outcome' = Raised("save_sync_token")
    /\ UNCHANGED <<calendar, costVars, noteVars, store, idx, email, sync_token, items, next_token, done,
                   processed, skipped, req, events, served, calls, annotate_failed>>

\* the event loop is over and next_token is None: nothing is saved
NoNewToken ==
    /\ pc = "events"
    /\ done = Len(items.list)
    /\ next_token = None
    /\ pc' = "loop"
    /\ UNCHANGED <<calendar, costVars, noteVars, store, idx, email, sync_token, items, next_token, done,
                   processed, skipped, outcome, req, events, served, calls, saves,
                   annotate_failed>>

\* return {"processed": processed, "skipped": skipped}, 200
Return ==
    /\ pc = "loop"
    /\ idx = NUsers
    /\ pc' = "done"
    /\ outcome' = [processed |-> processed, skipped |-> skipped]
    /\ UNCHANGED <<calendar, costVars, noteVars, store, idx, email, sync_token, items, next_token, done,
                   processed, skipped, req, events, served, calls, saves, annotate_failed>>

\* The state when a request reaches /cron: the store holds what earlier runs
\* left in it.
Init ==
    /\ config = DefaultConfig
    /\ event = NotCalled
    /\ kwargs = << >>
    /\ cost_info = NotCalled
    /\ store \in [UserSet -> StoredTokens \cup { None }]
    /\ pc = "loop"
    /\ idx = 0
    /\ email = ""
    /\ sync_token = None
    /\ items = List(<< >>)
    /\ next_token = None
    /\ done = 0
    /\ processed = 0
    /\ skipped = 0
    /\ outcome = NotStarted
    /\ req = NoRequest
    /\ events = << >>
    /\ served = << >>
    /\ calls = NoCalls
    /\ saves = 0
    /\ annotate_failed = 0
    /\ desc = ""
    /\ cost_line = ""
    /\ patch_body = NoPatch
    /\ calendar = NoCalendar

Next ==
    \/ NextUser
    \/ CalendarServiceRaises
    \/ GetSyncToken
    \/ GetSyncTokenRaises
    \/ CallList
    \/ ExecutePage
    \/ ExecuteLastPage
    \/ ExecuteRaisesStale
    \/ ExecuteRaises
    \/ CallListAgain
    \/ SkipEvent
    \/ AnnotateEvent
    \/ AnnotateRaises
    \/ SaveSyncToken
    \/ SaveSyncTokenRaises
    \/ NoNewToken
    \/ Return

Spec == Init /\ [][Next]_vars

-----------------------------------------------------------------------------
(* Properties of change tracking and of the driver (checked under Spec) *)

\* the run is over: cron() returned or an exception left it
RunEnded == pc \in { "done", "raised" }

\* the loop body of the current user ran to its end
UserFinished == pc \in { "loop", "done" } /\ calls # NoCalls

\* C1: a listing call that meets the upstream's stale-cursor error (410), on
\* any page, returns (None, None); a call that meets any other upstream
\* error raises.
C1_StaleCursorReturnsInvalid ==
    \A i \in DOMAIN calls :
        /\ calls[i].error = "410" => calls[i].result = "invalid"
        /\ calls[i].error \notin { "none", "410" } => calls[i].result = "raised"
        /\ calls[i].result = "invalid" => calls[i].items = NoItems
        /\ (i = Len(calls) /\ pc = "resync") =>
              (calls[i].result = "invalid" /\ items = NoItems /\ next_token = None)

C1_Witness ==
    /\ calls # NoCalls
    /\ calls[1].error = "410"
    /\ calls[1].result = "invalid"
    /\ calls[1].pages = 2
    /\ pc = "resync"

\* C2: the driver makes at most two listing calls for a user; the first
\* sends the stored cursor; a second call is made exactly when the first
\* returned (None, None), it sends no cursor, and its events are the ones
\* the event loop processes.
C2_OneResyncWithoutCursor ==
    /\ Len(calls) <= 2
    /\ Len(calls) >= 1 => calls[1].cursor = sync_token
    /\ Len(calls) = 2 =>
          /\ calls[1].result = "invalid"
          /\ calls[2].cursor = None
          /\ calls[2].cursor # calls[1].cursor
    /\ (pc = "events" \/ UserFinished) =>
          /\ calls[Len(calls)].result = "events"
          /\ items = calls[Len(calls)].items
          /\ calls[1].result = "invalid" => Len(calls) = 2
          /\ calls[1].result # "invalid" => Len(calls) = 1

C2_Witness ==
    /\ pc = "events"
    /\ Len(calls) = 2
    /\ calls[1].cursor = "tokA"
    /\ Len(items.list) = 2
    /\ done = 2
    /\ processed = 1

\* C3: when the run is over for a user whose cursor the upstream rejected,
\* the store no longer holds the rejected cursor for that user.
C3_RejectedCursorDiscarded ==
    ( /\ RunEnded \/ pc = "loop"
      /\ calls # NoCalls
      /\ calls[1].result = "invalid" )
    => store[email] # calls[1].cursor

\* C4: save_sync_token is called at most once for a user, when every event
\* of the batch has been taken by the loop and the listing returned a new
\* cursor; the store changes in no other step and then holds that cursor.
C4_SaveOnceAfterAllEvents ==
    [][ /\ saves' > saves =>
              /\ saves = 0
              /\ saves' = 1
              /\ pc = "events"
              /\ done = Len(items.list)
              /\ next_token # None
              /\ store' \in { store, [store EXCEPT ![email] = next_token] }
        /\ store' # store => saves' > saves
      ]_vars

C4_Witness ==
    /\ pc = "loop"
    /\ saves = 1
    /\ Len(items.list) = 2
    /\ done = 2
    /\ next_token = "tokB"
    /\ store[email] = "tokB"

\* C5: an annotation write that raises never ends the run; the loop still
\* takes every event of the user's batch before the cursor handling, and a
\* run that returns has taken every user.
C5_AnnotationFailureIsContained ==
    /\ pc = "raised" => outcome # Raised("annotate_event")
    /\ annotate_failed # 0 /\ pc = "events" /\ done < Len(items.list)
          => ENABLED (SkipEvent \/ AnnotateEvent \/ AnnotateRaises)
    /\ UserFinished => done = Len(items.list)
    /\ pc = "done" => idx = NUsers

C5_Witness ==
    /\ pc = "done"
    /\ annotate_failed = 1
    /\ idx = NUsers
    /\ Len(items.list) = 2
    /\ done = 2
    /\ processed >= 1
    /\ saves = 1

\* C6: a fatal failure while processing one user does not end the run: the
\* run ends only after the loop has taken every user, with a result.
C6_RunSurvivesUserFailure ==
    RunEnded => (idx = NUsers /\ outcome \notin { Raised(w) : w \in
        { "calendar_service", "get_sync_token", "list_changed_events",
          "for event in items", "save_sync_token" } })

\* the events of the served pages, in page order
RECURSIVE AllItems(_)
AllItems(pages) ==
    IF pages = << >> THEN << >>
    ELSE AllItems(SubSeq(pages, 1, Len(pages) - 1)) \o pages[Len(pages)].items

\* C20: a listing call asks for the next page as long as the page served
\* names one and returns at the first page that names none; it returns the
\* events of all served pages in page order, each once, and the cursor of
\* that last page, whatever cursor an earlier page carried.
C20_AllPagesThenLastCursor ==
    /\ [](pc = "paging" =>
            /\ events = AllItems(served)
            /\ req.page = Len(served) + 1
            /\ \A k \in DOMAIN served : served[k].nextPageToken # None)
    /\ [][ /\ (pc = "paging" /\ pc' = "paging") =>
                \E resp \in Responses(req, Rejected) :
                    /\ resp.nextPageToken # None
                    /\ served' = Append(served, resp)
           /\ (pc = "paging" /\ pc' = "events") =>
                \E resp \in Responses(req, Rejected) :
                    /\ resp.nextPageToken = None
                    /\ items' = List(AllItems(Append(served, resp)))
                    /\ next_token' = resp.nextSyncToken
                    /\ next_token' # EarlyToken
                    /\ calls'[Len(calls)].pages = Len(served) + 1
         ]_vars

C20_Witness ==
    /\ pc = "events"
    /\ done = 0
    /\ Len(calls) = 1
    /\ calls[1].cursor = "tokA"
    /\ calls[1].pages = 2
    /\ items = List(<< Meeting, Solo >>)
    /\ next_token = "tokB"

\* C21: the store holds one cursor (or none) for each user; get_sync_token
\* reads the cursor of the user being processed; a save that returns puts
\* the cursor of the last listing call (after a rejected cursor: the one of
\* the full resync) in the place of that user's previous cursor, and no step
\* changes the cursor of any other user.
C21_OneCursorPerUser ==
    /\ [](store \in [UserSet -> Tokens \cup { None }])
    /\ [][ /\ (pc = "get_sync_token" /\ pc' = "list") => sync_token' = store[email]
           /\ (saves' > saves /\ pc' = "loop") =>
                 /\ store' = [store EXCEPT ![email] = next_token]
                 /\ calls[Len(calls)].result = "events"
                 /\ Len(calls) = 2 => store'[email] # calls[1].cursor
           /\ \A u \in UserSet : u # email => store'[u] = store[u]
         ]_vars

C21_Witness ==
    /\ pc = "loop"
    /\ idx = 2
    /\ Len(calls) = 2
    /\ calls[1].cursor = "tokA"
    /\ saves = 1
    /\ store[users[2]] = "tokB"
    /\ store[users[1]] = None

\* C22: every event the loop takes adds one to exactly one of the two
\* counters, processed when the write returned, skipped when the cost policy
\* skipped it, and also when the write raised; the counters are never reset
\* between users and the result reports them.
C22_EveryEventCountedOnce ==
    [][ /\ (pc = "events" /\ done' = done + 1) =>
              /\ processed' + skipped' = processed + skipped + 1
              /\ IsSkipped(cost_info') <=> skipped' = skipped + 1
        /\ processed' >= processed
        /\ skipped' >= skipped
        /\ pc' = "done" => outcome' = [processed |-> processed, skipped |-> skipped]
      ]_vars

\* C27: when a listing call raises (an error other than the stale-cursor
\* one, on the first call or on the resync, on any page), the exception
\* leaves cron(): for that user no event reaches the loop, the events of the
\* pages served before are dropped, nothing is written, nothing is saved and
\* the store holds the cursor get_sync_token read.
C27_FatalListingSavesNothing ==
    \A i \in DOMAIN calls :
        calls[i].result = "raised" =>
            /\ i = Len(calls)
            /\ pc = "raised"
            /\ outcome = Raised("list_changed_events")
            /\ calls[i].error \notin { "none", "410" }
            /\ saves = 0
            /\ store[email] = sync_token
            /\ items \in { List(<< >>), NoItems }
            /\ events = << >>
            /\ cost_info = NotCalled
            /\ patch_body = NoPatch

C27_Witness ==
    /\ pc = "raised"
    /\ outcome = Raised("list_changed_events")
    /\ idx = 2
    /\ processed = 1
    /\ Len(calls) = 2
    /\ calls[1].result = "invalid"
    /\ calls[2].result = "raised"
    /\ calls[2].pages = 2
    /\ store[email] = "tokA"

-----------------------------------------------------------------------------
(* Cost policy runs: one event, one call of compute_meeting_cost *)

CostInit ==
    /\ config \in Configs
    /\ event \in Events
    /\ kwargs \in Kwargs
    /\ cost_info = NotCalled
    /\ store = [u \in UserSet |-> None]
    /\ pc = "cost"
    /\ idx = 0
    /\ email = ""
    /\ sync_token = None
    /\ items = List(<< >>)
    /\ next_token = None
    /\ done = 0
    /\ processed = 0
    /\ skipped = 0
    /\ outcome = NotStarted
    /\ req = NoRequest
    /\ events = << >>
    /\ served = << >>
    /\ calls = NoCalls
    /\ saves = 0
    /\ annotate_failed = 0
    /\ desc = ""
    /\ cost_line = ""
    /\ patch_body = NoPatch
    /\ calendar = NoCalendar

Compute ==
    /\ cost_info = NotCalled
    /\ cost_info' = compute_meeting_cost(event, kwargs)
    /\ UNCHANGED <<calendar, config, event, kwargs, cronVars, noteVars>>

CostNext == Compute

CostSpec == CostInit /\ [][CostNext]_vars

-----------------------------------------------------------------------------
(* Properties of the cost policy (checked under CostSpec) *)

Called == cost_info # NotCalled

Qualifies == Called /\ cost_info.skip_reason = None

\* the hourly rate the call uses
RateUsed ==
    IF "hourly_rate" \in DOMAIN kwargs THEN kwargs.hourly_rate ELSE config.default_rate

Abs(x) == IF x >= 0 THEN x ELSE -x

\* C7: every qualifying result has effective_count <= invited_count <=
\* number of attendees of the event, and effective_cost <= invited_cost.
C7_CountsAndCostsOrdered ==
    Qualifies =>
        /\ cost_info.effective_count <= cost_info.invited_count
        /\ cost_info.invited_count <= Len(event.attendees)
        /\ cost_info.effective_cost <= cost_info.invited_cost

C7_Witness ==
    /\ Qualifies
    /\ cost_info.effective_count < cost_info.invited_count
    /\ cost_info.effective_cost < cost_info.invited_cost
    /\ cost_info.invited_count = Len(event.attendees)

\* C8 as stated: for a qualifying event and a positive rate, the two costs
\* are equal exactly when the two counts are equal.
C8_EqualCostsIffEqualCounts ==
    (Qualifies /\ RateUsed > 0) =>
        ((cost_info.effective_cost = cost_info.invited_cost)
            <=> (cost_info.effective_count = cost_info.invited_count))

\* C8 amended: equal counts give equal costs; equal costs with different
\* counts happen only when rounding collapses the two products, that is when
\* hours * rate * (invited_count - effective_count) <= 1.
C8_EqualCountsGiveEqualCosts ==
    (Qualifies /\ RateUsed > 0) =>
        /\ (cost_info.effective_count = cost_info.invited_count
                => cost_info.effective_cost = cost_info.invited_cost)
        /\ (/\ cost_info.effective_cost = cost_info.invited_cost
            /\ cost_info.effective_count # cost_info.invited_count)
                => cost_info.hours * RateUsed
                     * (cost_info.invited_count - cost_info.effective_count)
                       <= SecondsPerHour

C8_Witness ==
    /\ Qualifies
    /\ RateUsed > 0
    /\ cost_info.effective_count < cost_info.invited_count
    /\ cost_info.effective_cost = cost_info.invited_cost

\* c is num / den rounded to the nearest integer, a tie going away from zero
IsNearestHalfAway(c, num, den) ==
    /\ 2 * Abs(c * den - num) <= den
    /\ 2 * Abs(c * den - num) = den => c * den > num

\* c is num / den rounded to the nearest integer, a tie going to the even one
IsNearestHalfEven(c, num, den) ==
    /\ 2 * Abs(c * den - num) <= den
    /\ 2 * Abs(c * den - num) = den => c % 2 = 0

\* C9 as stated: both costs are hours * count * rate rounded to the
\* nearest integer, every exact half rounded away from zero.
C9_RoundsHalfAwayFromZero ==
    Qualifies =>
        /\ IsNearestHalfAway(cost_info.invited_cost,
               cost_info.hours * cost_info.invited_count * RateUsed, SecondsPerHour)
        /\ IsNearestHalfAway(cost_info.effective_cost,
               cost_info.hours * cost_info.effective_count * RateUsed, SecondsPerHour)

\* C9 amended: both costs are hours * count * rate rounded to the nearest
\* integer, an exact half rounded to the even neighbour (937.5 gives 938,
\* 62.5 gives 62), by the same rule for both costs.
C9_RoundsHalfToEven ==
    Qualifies =>
        /\ IsNearestHalfEven(cost_info.invited_cost,
               cost_info.hours * cost_info.invited_count * RateUsed, SecondsPerHour)
        /\ IsNearestHalfEven(cost_info.effective_cost,
               cost_info.hours * cost_info.effective_count * RateUsed, SecondsPerHour)

\* a tie that is rounded down, and a tie that is rounded up
C9_Witness ==
    /\ Qualifies
    /\ cost_info.hours = 900 /\ cost_info.effective_count = 2 /\ RateUsed = 125
    /\ cost_info.effective_cost = 62
    /\ cost_info.invited_count = 3
    /\ cost_info.invited_cost = 94

\* C10: for an internal-only meeting of n >= 2 attendees that carry no
\* response status, at the default rate, effective_cost is n * rate * h
\* truncated to an integer.
C10_EffectiveCostTruncates ==
    ( /\ Qualifies
      /\ kwargs = << >>
      /\ \A i \in DOMAIN event.attendees :
            /\ HasEmail(event.attendees[i])
            /\ internal_email(event.attendees[i].email)
            /\ "responseStatus" \notin DOMAIN event.attendees[i] )
    => cost_info.effective_cost
         = (Len(event.attendees) * config.default_rate * cost_info.hours)
              \div SecondsPerHour

-----------------------------------------------------------------------------

\* the attendees of the event that pass a test, counted over their positions
CountOf(ev, Test(_)) ==
    Cardinality({ i \in DOMAIN ev.attendees : Test(ev.attendees[i]) })

IsInternal(a) == HasEmail(a) /\ internal_email(a.email)

IsExternal(a) == HasEmail(a) /\ ~internal_email(a.email)

IsInternalEffective(a) == IsInternal(a) /\ IsEffective(a)

\* the first skip condition that holds for the event, in the order no_duration,
\* mixed_meeting, no_internal_attendees, solo_meeting, all_declined,
\* effective_solo_meeting; None when none holds
FirstSkipReason(ev) ==
    IF \/ ~HasDateTime(ev.start)
       \/ ~HasDateTime(ev.end)
       \/ ev.end.dateTime <= ev.start.dateTime
    THEN "no_duration"
    ELSE IF config.internal_only /\ CountOf(ev, IsExternal) > 0 THEN "mixed_meeting"
    ELSE IF CountOf(ev, IsInternal) = 0 THEN "no_internal_attendees"
    ELSE IF CountOf(ev, IsInternal) = 1 THEN "solo_meeting"
    ELSE IF CountOf(ev, IsInternalEffective) = 0 THEN "all_declined"
    ELSE IF CountOf(ev, IsInternalEffective) = 1 THEN "effective_solo_meeting"
    ELSE None

\* C11: compute_meeting_cost returns the reason of the first skip condition
\* that holds, in the order no_duration, mixed_meeting (internal-only flag on
\* and an attendee with an email is external), no_internal_attendees,
\* solo_meeting, all_declined, effective_solo_meeting, and a qualifying result
\* (with the counts of the internal and of the effective attendees) exactly
\* when none holds; attendees without an email count in no check.
C11_FirstSkipReasonWins ==
    Called =>
        /\ cost_info.skip_reason = FirstSkipReason(event)
        /\ ("invited_count" \in DOMAIN cost_info) <=> (FirstSkipReason(event) = None)
        /\ cost_info.skip_reason = None =>
              /\ cost_info.invited_count = CountOf(event, IsInternal)
              /\ cost_info.effective_count = CountOf(event, IsInternalEffective)

\* two conditions hold (an external attendee under internal-only, and no
\* internal attendee) and an attendee has no email: the earlier reason wins
C11_Witness ==
    /\ Called
    /\ config.internal_only
    /\ cost_info.skip_reason = "mixed_meeting"
    /\ CountOf(event, IsInternal) = 0
    /\ CountOf(event, HasEmail) < Len(event.attendees)

\* the response status the policy reads for an attendee
ResponseOf(a) ==
    IF "responseStatus" \in DOMAIN a THEN a.responseStatus ELSE "needsAction"

NotDeclined(a) == IsInternal(a) /\ ResponseOf(a) # "declined"

\* C13: an internal attendee is effective exactly when its response status
\* is not declined (accepted, tentative, needsAction, or no status at all);
\* three internal attendees of whom one declined and two accepted, 2 hours
\* at rate 125, give counts 3 and 2 and costs 750 and 500.
C13_EffectiveIffNotDeclined ==
    /\ \A i \in DOMAIN event.attendees :
          IsInternal(event.attendees[i]) =>
              (IsEffective(event.attendees[i])
                  <=> ResponseOf(event.attendees[i])
                        \in { "accepted", "tentative", "needsAction" })
    /\ Qualifies => cost_info.effective_count = CountOf(event, NotDeclined)
    /\ (Called /\ cost_info.skip_reason = "all_declined")
          => CountOf(event, NotDeclined) = 0
    /\ (Called /\ cost_info.skip_reason = "effective_solo_meeting")
          => CountOf(event, NotDeclined) = 1
    /\ ( /\ Called
         /\ RateUsed = 125
         /\ HasDateTime(event.start) /\ HasDateTime(event.end)
         /\ event.end.dateTime - event.start.dateTime = 2 * SecondsPerHour
         /\ Len(event.attendees) = 3
         /\ CountOf(event, IsInternal) = 3
         /\ CountOf(event, LAMBDA a : ResponseOf(a) = "declined") = 1
         /\ CountOf(event, LAMBDA a : ResponseOf(a) = "accepted") = 2 )
       => /\ Qualifies
          /\ cost_info.invited_count = 3
          /\ cost_info.effective_count = 2
          /\ cost_info.invited_cost = 750
          /\ cost_info.effective_cost = 500

C13_Witness ==
    /\ Qualifies
    /\ RateUsed = 125
    /\ cost_info.hours = 2 * SecondsPerHour
    /\ Len(event.attendees) = 3
    /\ CountOf(event, LAMBDA a : ResponseOf(a) = "declined") = 1
    /\ CountOf(event, LAMBDA a : ResponseOf(a) = "accepted") = 2
    /\ cost_info.invited_cost = 750
    /\ cost_info.effective_cost = 500

-----------------------------------------------------------------------------
(* Annotation runs: one event of one user goes through the body of the       *)
(* event loop of cron() in successive runs.  An annotation write changes the *)
(* event, so the next incremental listing returns it again.                  *)

\* runs that observe the event, at most
MaxRuns == 3

Att(e, r) == [email |-> e, responseStatus |-> r]

\* the attendee lists of the fixtures: nobody, one person, two internal, three
\* internal of whom one declined, internal with external, external only
NoteAttendeeLists ==
    { << >>,
      << Att("alice@hginsights.com", "accepted") >>,
      << Att("alice@hginsights.com", "accepted"), Att("Bob@HGInsights.COM", "accepted") >>,
      << Att("alice@hginsights.com", "accepted"), Att("Bob@HGInsights.COM", "declined"),
         Att("carol@hginsights.com", "accepted") >>,
      << Att("alice@hginsights.com", "accepted"),
         Att("external@otherdomain.com", "accepted") >>,
      << Att("external@otherdomain.com", "accepted"),
         Att("external@otherdomain.com", "needsAction") >> }

\* half an hour, two hours, all day
NoteTimes ==
    { [start |-> [dateTime |-> 900], end |-> [dateTime |-> 2700]],
      [start |-> [dateTime |-> 900], end |-> [dateTime |-> 8100]],
      [start |-> [date |-> "2025-01-01"], end |-> [date |-> "2025-01-02"]] }

\* an annotation an earlier run wrote: one line, and two lines
OldLine == DefaultCostTag \o ": " \o GreenCircle \o " $100"

OldBlock ==
    DefaultCostTag \o ": " \o GreenCircle \o " $200\n"
        \o BoxUpRight \o BoxHorizontal \o " Invited cost: " \o GreenCircle \o " $300 "
        \o "(3 invited " \o RightArrow \o " 2 attending)"

\* a line a user wrote that starts with the horizontal box character
RuleLine == BoxHorizontal \o BoxHorizontal \o " Notes " \o BoxHorizontal \o BoxHorizontal

NoteDescriptions ==
    { "",
      " \n",
      "Agenda\nBudget review",
      DefaultCostTag \o " is the tag",
      OldLine,
      OldLine \o "\nAgenda",
      OldBlock \o "\nAgenda\n",
      "Intro\n" \o OldBlock,
      OldLine \o "\n" \o RuleLine \o "\nBring laptop",
      "See " \o OldLine \o "\n" \o OldBlock \o "\nEnd" }

NoteEvents ==
    { [id |-> "evt", start |-> t.start, end |-> t.end, attendees |-> a] :
        t \in NoteTimes, a \in NoteAttendeeLists }
    \cup
    { [id |-> "evt", start |-> t.start, end |-> t.end, attendees |-> a,
       description |-> d] :
        t \in NoteTimes, a \in NoteAttendeeLists, d \in NoteDescriptions }

\* DEFAULT_RATE of the environment
NoteRates == { 0, 125, 500, 501, 1000, 1001 }

NoteConfigs == { [DefaultConfig EXCEPT !.default_rate = r] : r \in NoteRates }

NoteInit ==
    /\ config \in NoteConfigs
    /\ event \in NoteEvents
    /\ kwargs = << >>
    /\ cost_info = NotCalled
    /\ store = [u \in UserSet |-> None]
    /\ pc = "event"
    /\ idx = 1
    /\ email = users[1]
    /\ sync_token = None
    /\ items = List(<< >>)
    /\ next_token = None
    /\ done = 0
    /\ processed = 0
    /\ skipped = 0
    /\ outcome = NotStarted
    /\ req = NoRequest
    /\ events = << >>
    /\ served = << >>
    /\ calls = NoCalls
    /\ saves = 0
    /\ annotate_failed = 0
    /\ desc = ""
    /\ cost_line = ""
    /\ patch_body = NoPatch
    /\ calendar = NoCalendar

\* cost_info = compute_meeting_cost(event); the cost is negative: skipped += 1
ObserveSkip ==
    /\ pc = "event"
    /\ cost_info' = compute_meeting_cost(event, << >>)
    /\ IsSkipped(cost_info')
    /\ skipped' = skipped + 1
    /\ pc' = "skipped"
    /\ UNCHANGED <<calendar, config, event, kwargs, noteVars, store, idx, email, sync_token, items,
                   next_token, done, processed, outcome, req, events, served, calls, saves,
                   annotate_failed>>

\* the event qualifies, annotate_event returns and upstream holds the patch
ObserveAnnotate ==
    /\ pc = "event"
    /\ cost_info' = compute_meeting_cost(event, << >>)
    /\ ~IsSkipped(cost_info')
    /\ Annotated(event, cost_info')
    /\ event' = Patched(event, patch_body')
    /\ processed' = processed + 1
    /\ pc' = "annotated"
    /\ UNCHANGED <<calendar, config, kwargs, store, idx, email, sync_token, items, next_token, done,
                   skipped, outcome, req, events, served, calls, saves, annotate_failed>>

\* the event qualifies and the patch request raises: nothing is written
ObserveAnnotateRaises ==
    /\ pc = "event"
    /\ cost_info' = compute_meeting_cost(event, << >>)
    /\ ~IsSkipped(cost_info')
    /\ annotate_failed' = idx
    /\ pc' = "failed"
    /\ UNCHANGED <<calendar, config, event, kwargs, noteVars, store, idx, email, sync_token, items,
                   next_token, done, processed, skipped, outcome, req, events, served, calls,
                   saves>>

\* a later run lists the event again, unchanged by anyone else
NextRun ==
    /\ pc \in { "annotated", "skipped" }
    /\ processed + skipped < MaxRuns
    /\ pc' = "event"
    /\ UNCHANGED <<calendar, costVars, noteVars, store, idx, email, sync_token, items, next_token,
                   done, processed, skipped, outcome, req, events, served, calls, saves,
                   annotate_failed>>

\* before the next run an attendee answers the invitation
AttendeeResponds ==
    /\ pc \in { "annotated", "skipped" }
    /\ processed + skipped < MaxRuns
    /\ \E i \in DOMAIN event.attendees : \E r \in { "accepted", "declined" } :
          /\ event.attendees[i].responseStatus # r
          /\ event' = [event EXCEPT !.attendees[i].responseStatus = r]
    /\ pc' = "event"
    /\ UNCHANGED <<calendar, config, kwargs, cost_info, noteVars, store, idx, email, sync_token,
                   items, next_token, done, processed, skipped, outcome, req, events, served,
                   calls, saves, annotate_failed>>

NoteNext ==
    \/ ObserveSkip
    \/ ObserveAnnotate
    \/ ObserveAnnotateRaises
    \/ NextRun
    \/ AttendeeResponds

NoteSpec == NoteInit /\ [][NoteNext]_vars

-----------------------------------------------------------------------------
(* Properties of the annotation (checked under NoteSpec) *)

\* the loop body has just run on the event
Observed == pc \in { "skipped", "annotated", "failed" }

\* annotate_event has just written the event
Written == pc = "annotated"

\* C12: a skip outcome carries both costs -1 and a reason, a qualifying
\* outcome carries no reason and costs >= 0 (the rate is not negative), so
\* the driver skips exactly the events with a reason: single-person, mixed
\* under internal-only, external-only, no-attendee and all-day events are
\* skipped, and an event whose cost is zero is annotated.
C12_NegativeCostIffSkipReason ==
    Observed =>
        /\ cost_info.skip_reason # None =>
              (cost_info.invited_cost = -1 /\ cost_info.effective_cost = -1)
        /\ cost_info.skip_reason = None =>
              (cost_info.invited_cost >= 0 /\ cost_info.effective_cost >= 0)
        /\ (pc = "skipped") <=> (cost_info.skip_reason # None)
        /\ ( \/ ~HasDateTime(event.start)
             \/ CountOf(event, IsInternal) <= 1
             \/ (config.internal_only /\ CountOf(event, IsExternal) > 0) )
              => pc = "skipped"

C12_Witness ==
    /\ Written
    /\ cost_info.skip_reason = None
    /\ cost_info.effective_cost = 0
    /\ cost_info.invited_cost = 0
    /\ patch_body.description = DefaultCostTag \o ": " \o GreenCircle \o " $0"

\* C14: annotating the written event once more with the same cost result
\* gives the description that is already there, for the one-line and for the
\* two-line block, whatever the description was before the first write.
C14_AnnotateTwiceIsAnnotateOnce ==
    Written =>
        /\ event.description = new_desc(desc, cost_line)
        /\ new_desc(event.description, cost_line) = event.description
        /\ PatchBody(event, cost_info) = patch_body

C14_Witness ==
    /\ Written
    /\ desc = "Intro\n" \o OldBlock
    /\ cost_info.invited_cost # cost_info.effective_cost
    /\ event.description = "Intro\n" \o cost_line
    /\ event.description # desc

\* the last character of the line that holds position i
LineEnd(s, i) ==
    CHOOSE k \in i..Len(s) :
        /\ k = Len(s) \/ CharAt(s, k + 1) = "\n"
        /\ \A j \in i..(k - 1) : CharAt(s, j + 1) # "\n"

\* how a subordinate line starts
SubordinatePrefix == BoxUpRight \o BoxHorizontal \o " Invited cost: "

\* the last character of the block whose lines end at e so far: every line
\* directly after it that is a subordinate line belongs to the block
RECURSIVE BlockEnd(_, _)
BlockEnd(s, e) ==
    IF e + 2 <= Len(s) /\ StartsAt(s, e + 2, SubordinatePrefix)
    THEN BlockEnd(s, LineEnd(s, e + 2))
    ELSE e

\* C15: when the description holds one annotation block (the tag line and
\* the subordinate lines directly after it), the new description is the old
\* one with exactly that block replaced by the rendered block; the text
\* before the block and the text after it, from the next line on, stay.
C15_OnlyTheBlockIsReplaced ==
    ( /\ Written
      /\ Search(desc)
      /\ FindTag(desc, FindTag(desc, 1) + 1) = 0 )
    => LET i == FindTag(desc, 1)
           e == BlockEnd(desc, LineEnd(desc, i))
       IN  event.description
             = SubSeq(desc, 1, i - 1) \o cost_line \o SubSeq(desc, e + 1, Len(desc))

\* C16: when the description holds no annotation block, the new description
\* is the rendered block, one blank line and the old description unchanged;
\* when the old description has no text (it is empty or blank), the new
\* description is the block alone.
C16_BlockThenBlankLineThenText ==
    (Written /\ FindTag(desc, 1) = 0) =>
        /\ StartsAt(event.description, 1, cost_line)
        /\ HasText(desc) =>
              SubSeq(event.description, Len(cost_line) + 1, Len(event.description))
                  = "\n\n" \o desc
        /\ ~HasText(desc) => event.description = cost_line

C16_Witness ==
    /\ Written
    /\ processed = 1
    /\ desc = "Agenda\nBudget review"
    /\ event.description
         = DefaultCostTag \o ": " \o GreenCircle \o " $125\n\nAgenda\nBudget review"

\* the rendered line of one cost: marker, blank, dollar sign, the amount
\* with thousands separators
Amount(marker, cost) == marker \o " $" \o Commas(cost)

\* the marker the thresholds give: high above 1000, medium above 500, else low
Tier(cost) ==
    IF cost > 1000 THEN RedCircle
    ELSE IF cost <= 500 THEN GreenCircle
    ELSE OrangeCircle

\* C17: the block is the single line "tag: marker $cost" exactly when the
\* two costs are equal; otherwise it is that line for the effective cost and
\* a second, subordinate line with the invited cost and the two counts.
C17_OneLineIffCostsEqual ==
    Written =>
        LET first == config.cost_tag \o ": "
                       \o Amount(Tier(cost_info.effective_cost), cost_info.effective_cost)
            second == SubordinatePrefix
                       \o Amount(Tier(cost_info.invited_cost), cost_info.invited_cost)
                       \o " (" \o IntStr(cost_info.invited_count) \o " invited "
                       \o RightArrow \o " " \o IntStr(cost_info.effective_count)
                       \o " attending)"
        IN  /\ (cost_info.invited_cost = cost_info.effective_cost)
                  <=> ~Contains(cost_line, "\n")
            /\ cost_info.invited_cost = cost_info.effective_cost => cost_line = first
            /\ cost_info.invited_cost # cost_info.effective_cost
                  => cost_line = first \o "\n" \o second

C17_Witness ==
    /\ Written
    /\ cost_info.invited_count = 3
    /\ cost_info.effective_count = 2
    /\ cost_line = DefaultCostTag \o ": " \o GreenCircle \o " $500\n"
                     \o BoxUpRight \o BoxHorizontal \o " Invited cost: "
                     \o OrangeCircle \o " $750 (3 invited " \o RightArrow
                     \o " 2 attending)"

\* the marker of the first line of a block
FirstMarker(line) == CharAt(line, Len(config.cost_tag) + 3)

\* the marker of the subordinate line of a two-line block
SecondMarker(line) ==
    LET nl == CHOOSE k \in 1..Len(line) : CharAt(line, k) = "\n"
    IN  CharAt(line, nl + Len(SubordinatePrefix) + 1)

\* C18: the marker of a rendered cost is high when cost > 1000, medium when
\* 500 < cost <= 1000, low when cost <= 500; each cost of a two-line block
\* has its own marker; 500 is low, 501 and 1000 are medium, 1001 is high.
C18_TierByThresholds ==
    Written =>
        /\ FirstMarker(cost_line) = Tier(cost_info.effective_cost)
        /\ cost_info.effective_cost = 500 => FirstMarker(cost_line) = GreenCircle
        /\ cost_info.effective_cost = 501 => FirstMarker(cost_line) = OrangeCircle
        /\ cost_info.effective_cost = 1000 => FirstMarker(cost_line) = OrangeCircle
        /\ cost_info.effective_cost = 1001 => FirstMarker(cost_line) = RedCircle
        /\ Contains(cost_line, "\n") =>
              SecondMarker(cost_line) = Tier(cost_info.invited_cost)

C18_Witness ==
    /\ Written
    /\ cost_info.effective_cost = 1000
    /\ cost_info.invited_cost = 1500
    /\ FirstMarker(cost_line) = OrangeCircle
    /\ SecondMarker(cost_line) = RedCircle

\* int(s) of a string of digits
RECURSIVE ParseInt(_)
ParseInt(s) ==
    IF Len(s) = 0 THEN 0
    ELSE 10 * ParseInt(SubSeq(s, 1, Len(s) - 1))
           + (CHOOSE d \in 0..9 : DigitSeq[d + 1] = CharAt(s, Len(s)))

\* C19: every annotation write carries the private fields effectiveCost,
\* invitedCost and meetingCost, the first and the last equal to the result's
\* effective cost and the second to its invited cost; the metadata an event
\* holds after any writes has meetingCost = effectiveCost <= invitedCost and
\* the effective cost its description shows.
C19_MetadataMatchesCosts ==
    /\ Written =>
          /\ DOMAIN patch_body.extendedProperties.private
               = { "meetingCost", "invitedCost", "effectiveCost" }
          /\ patch_body.extendedProperties.private.effectiveCost
               = IntStr(cost_info.effective_cost)
          /\ patch_body.extendedProperties.private.meetingCost
               = IntStr(cost_info.effective_cost)
          /\ patch_body.extendedProperties.private.invitedCost
               = IntStr(cost_info.invited_cost)
    /\ "extendedProperties" \in DOMAIN event =>
          LET private == event.extendedProperties.private
          IN  /\ private.meetingCost = private.effectiveCost
              /\ ParseInt(private.effectiveCost) <= ParseInt(private.invitedCost)
              /\ Contains(event.description,
                          config.cost_tag \o ": "
                            \o Amount(Tier(ParseInt(private.effectiveCost)),
                                      ParseInt(private.effectiveCost)))

C19_Witness ==
    /\ Written
    /\ processed = 2
    /\ event.extendedProperties.private
         = [meetingCost |-> "1000", invitedCost |-> "1500", effectiveCost |-> "1000"]
    /\ Contains(event.description, "$1,000")
    /\ Contains(event.description, "$1,500")


\* the text of d after the block that is its first Len(line) characters
AfterBlock(d, line) == SubSeq(d, Len(line) + 1, Len(d))

\* d is the block alone, or the block, one blank line and a text that holds
\* no annotation
OneBlockThenText(d, line) ==
    /\ StartsAt(d, 1, line)
    /\ LET rest == AfterBlock(d, line)
       IN  /\ FindTag(rest, 1) = 0
           /\ rest = "" \/ (StartsAt(rest, 1, "\n\n") /\ HasText(rest))

\* the two-line block of three invited of whom two attend two hours at 125
TwoLineBlock ==
    DefaultCostTag \o ": " \o GreenCircle \o " $500\n" \o SubordinatePrefix
        \o OrangeCircle \o " $750 (3 invited " \o RightArrow \o " 2 attending)"

\* C23: the first write on a description without an annotation leaves the
\* rendered block followed by a blank line and the original text (the block
\* alone when the original is empty or blank); every later write, whatever
\* the new cost result and whichever of the two renderings the old and the
\* new block are, puts the new block in the place of the old one and leaves
\* what follows it: by induction the description holds exactly one block,
\* the rendering of the latest result, no line of an earlier block, and the
\* original text after it.
C23_OneBlockOfLatestResult ==
    /\ []((Written /\ FindTag(desc, 1) = 0) =>
            /\ event.description
                 = (IF HasText(desc) THEN cost_line \o "\n\n" \o desc ELSE cost_line)
            /\ OneBlockThenText(event.description, cost_line))
    /\ [][ ( /\ pc = "event"
             /\ Written'
             /\ processed >= 1
             /\ OneBlockThenText(Description(event), cost_line) )
           => /\ cost_line' = create_dual_cost_display(cost_info')
              /\ event'.description
                   = cost_line' \o AfterBlock(event.description, cost_line)
              /\ OneBlockThenText(event'.description, cost_line')
         ]_vars

C23_Witness ==
    /\ Written
    /\ processed = 3
    /\ desc = DefaultCostTag \o ": " \o OrangeCircle \o " $750\n\nAgenda\nBudget review"
    /\ event.description = TwoLineBlock \o "\n\nAgenda\nBudget review"

-----------------------------------------------------------------------------
(* Successive runs against one calendar.  /cron is requested again and     *)
(* again.  The calendar of the first user holds one event and the others   *)
(* hold none.  What upstream holds is followed: a listing without a cursor *)
(* returns the event (it lies in the window and is not deleted), a listing *)
(* with a cursor returns it when it has changed since upstream issued that *)
(* cursor, and every listing issues a new cursor.  Listings here are one   *)
(* page long and do not fail; only the annotation write can raise.         *)

\* a line the owner of the event adds to its description
OwnerLine == "Room 4"

\* three invited of whom one has declined, two hours
SyncEvents ==
    { [ id |-> "evt",
        start |-> [dateTime |-> 900], end |-> [dateTime |-> 8100],
        attendees |-> << Att("alice@hginsights.com", "accepted"),
                         Att("Bob@HGInsights.COM", "declined"),
                         Att("carol@hginsights.com", "accepted") >>,
        description |-> d ] : d \in { "", "Agenda\nBudget review" } }

\* before the first run: nothing stored, no cursor issued
SyncInit ==
    /\ config = DefaultConfig
    /\ event = NotCalled
    /\ kwargs = << >>
    /\ cost_info = NotCalled
    /\ store = [u \in UserSet |-> None]
    /\ pc = "loop"
    /\ idx = 0
    /\ email = ""
    /\ sync_token = None
    /\ items = List(<< >>)
    /\ next_token = None
    /\ done = 0
    /\ processed = 0
    /\ skipped = 0
    /\ outcome = NotStarted
    /\ req = NoRequest
    /\ events = << >>
    /\ served = << >>
    /\ calls = NoCalls
    /\ saves = 0
    /\ annotate_failed = 0
    /\ desc = ""
    /\ cost_line = ""
    /\ patch_body = NoPatch
    /\ calendar \in { [owner |-> users[1], event |-> e, since |-> [t \in Tokens |-> FALSE]] :
                        e \in SyncEvents }

\* resp = req.execute() on the calendar: one page, the last one, with the
\* event when the request has no cursor or the event has changed since the
\* cursor was issued, and with a cursor that is not the one sent
ExecuteOnCalendar ==
    /\ pc = "paging"
    /\ LET mine == calendar.owner = email
           listed == IF mine /\ (req.syncToken = None \/ calendar.since[req.syncToken])
                     THEN << calendar.event >>
                     ELSE << >>
           tok == IF req.syncToken = "tokA" THEN "tokB" ELSE "tokA"
       IN  /\ Returned(List(events \o listed), tok, "none")
           /\ calendar' = IF mine THEN [calendar EXCEPT !.since[tok] = FALSE] ELSE calendar
    /\ UNCHANGED <<costVars, noteVars, store, idx, email, sync_token, processed, skipped,
                   saves, annotate_failed>>

\* the next request to /cron: users = list_active_users(); processed = 0;
\* skipped = 0
CronAgain ==
    /\ pc = "done"
    /\ pc' = "loop"
    /\ idx' = 0
    /\ email' = ""
    /\ FreshLocals
    /\ processed' = 0
    /\ skipped' = 0
    /\ outcome' = NotStarted
    /\ annotate_failed' = 0
    /\ UNCHANGED <<calendar, config, kwargs, store, req, events, served>>

\* the owner of the event adds a line to its description
OwnerEdits ==
    /\ ~Contains(Description(calendar.event), OwnerLine)
    /\ calendar' =
          [calendar EXCEPT
              !.event.description =
                  IF @ = "" THEN OwnerLine ELSE @ \o "\n" \o OwnerLine,
              !.since = [t \in Tokens |-> TRUE]]
    /\ UNCHANGED <<costVars, cronVars, noteVars>>

\* the second or the third invited person answers the invitation
AttendeeAnswers ==
    /\ \E i \in { 2, 3 } : \E r \in { "accepted", "declined" } :
          /\ calendar.event.attendees[i].responseStatus # r
          /\ calendar' = [calendar EXCEPT !.event.attendees[i].responseStatus = r,
                                          !.since = [t \in Tokens |-> TRUE]]
    /\ UNCHANGED <<costVars, cronVars, noteVars>>

SyncNext ==
    \/ NextUser
    \/ GetSyncToken
    \/ CallList
    \/ ExecuteOnCalendar
    \/ SkipEvent
    \/ AnnotateEvent
    \/ AnnotateRaises
    \/ SaveSyncToken
    \/ Return
    \/ CronAgain
    \/ OwnerEdits
    \/ AttendeeAnswers

SyncSpec == SyncInit /\ [][SyncNext]_vars

-----------------------------------------------------------------------------
(* Properties of successive runs (checked under SyncSpec) *)

\* the cost policy does not skip the event
EventQualifies(ev) == ~IsSkipped(compute_meeting_cost(ev, << >>))

\* the event qualifies and a write for it would put the description and the
\* three properties it already holds
HoldsAnnotation(ev) ==
    /\ EventQualifies(ev)
    /\ Patched(ev, PatchBody(ev, compute_meeting_cost(ev, << >>))) = ev

\* in this step the loop has taken an event and its annotation write returned
WriteReturned == pc = "events" /\ processed' = processed + 1

\* the next listing for the owner of the event returns the event
Pending ==
    \/ store[calendar.owner] = None
    \/ calendar.since[store[calendar.owner]]

\* C24: a listed event that already holds its current annotation, in the
\* description and in the three properties, is not written again; so when
\* nobody else changes the calendar the writes stop after finitely many runs.
C24_NoWriteOfCurrentAnnotation ==
    [][ WriteReturned => ~HoldsAnnotation(event') ]_vars

\* C25: when a run has ended in which the annotation write of the event
\* raised, and the event upstream qualifies and does not hold its
\* annotation, the next listing returns the event: the stored cursor has not
\* moved past it.
C25_FailedWriteIsNotLost ==
    ( /\ pc = "done"
      /\ annotate_failed # 0
      /\ EventQualifies(calendar.event)
      /\ ~HoldsAnnotation(calendar.event) )
    => Pending

\* C26: when the owner's line is in the description upstream and not in the
\* event as it was listed (the owner wrote it after the listing), the
\* description upstream still holds the line after the annotation write.
C26_WriteKeepsConcurrentEdit ==
    [][ ( /\ WriteReturned
          /\ calendar.owner = email
          /\ Contains(Description(calendar.event), OwnerLine)
          /\ ~Contains(Description(event'), OwnerLine) )
        => Contains(Description(calendar'.event), OwnerLine)
      ]_vars
=============================================================================
